---- MODULE Spec2Model ----
(***************************************************************************)
(* Payment reconciliation and balance ledger of the santa backend:         *)
(* deposits, withdrawals and ledger entries in the relational store, the   *)
(* balance cache and the webhook archive in the document store, and the    *)
(* handlers that move them (webhook, poll verification, batch apply,       *)
(* charge initiation, withdrawal initiation, approval and rejection).      *)
(*                                                                         *)
(* Values.  Python None, a missing key, 0 and "" are all falsy in the      *)
(* `a or b` chains of the handlers; identifiers are modelled as integers   *)
(* with 0 for the falsy value, texts as strings with "" for it.            *)
(* Time.  `clock` is datetime.utcnow().  A step that creates or completes  *)
(* a Deposit advances it before it stamps the row, so a timestamp written  *)
(* later is never earlier, and a Deposit is stamped strictly later than    *)
(* every row written before it was created.                                *)
(***************************************************************************)
EXTENDS Integers, Sequences, FiniteSets, TLC

----------------------------------------------------------------------------
(* Bounds of the model *)

MaxClock == 4
MaxDeposits == 2
MaxWithdrawals == 1
MaxEvents == 1

(* Input domains *)

Users == {1, 2}
Amounts == {100, 200}
Currency == "USD"
Account == "ACC"

NoId == 0                 \* None / missing gateway transaction id
StrNone == 999            \* the text "None", what str(None) yields
NoRef == 0                \* None / missing transaction reference
ForeignRef == 77          \* a reference no Deposit of this system carries
FlwRef == 88              \* a gateway-side "flw_ref", foreign as a tx_ref
NoSig == 0                \* signature header absent (or empty)
TxIds == {901, 902}
TransferIds == {701}

----------------------------------------------------------------------------
(* Pure helpers *)

Max(S) == CHOOSE x \in S : \A y \in S : y <= x

RECURSIVE SumOver(_, _)
SumOver(S, f) ==
    IF S = {} THEN 0
    ELSE LET x == CHOOSE y \in S : TRUE IN f[x] + SumOver(S \ {x}, f)

\* a or b, on identifiers
Or(a, b) == IF a # 0 THEN a ELSE b
\* a or b, on texts
OrS(a, b) == IF a # "" THEN a ELSE b

\* str(x) of an identifier: str(None) is the text "None"
Str(x) == IF x = NoId THEN StrNone ELSE x

\* str(x).lower() of a status text; str(None).lower() is "none"
Lower(s) ==
    CASE s = "" -> "none"
      [] s = "SUCCESSFUL" -> "successful"
      [] s = "Charge.Completed" -> "charge.completed"
      [] OTHER -> s

SuccessWords == {"successful", "success", "completed", "charge.completed"}

IsSuccessStatus_any(s) == TRUE

\* str(status).lower() in ("successful", "success", "completed", "charge.completed")
IsSuccessStatus(s) == Lower(s) \in SuccessWords

----------------------------------------------------------------------------
(* Webhook signature: HMAC-SHA256(WEBHOOK_SECRET, raw body) as hex digest.  *)
(* The digest is modelled as a keyed mixing function of the body's fields   *)
(* into a finite range; it is not injective, as no digest is.               *)

WEBHOOK_SECRET == 5
WrongSecret == 6
HashMod == 9973

StatusCode(s) ==
    CASE s = "" -> 1
      [] s = "successful" -> 2
      [] s = "SUCCESSFUL" -> 3
      [] s = "failed" -> 4
      [] s = "charge.completed" -> 5
      [] s = "Charge.Completed" -> 6
      [] OTHER -> 7

\* data of the gateway that also reports the amount and currency charged
Reported(data, amount, currency) ==
    [f \in DOMAIN data \cup {"amount", "currency"} |->
        IF f = "amount" THEN amount
        ELSE IF f = "currency" THEN currency
        ELSE data[f]]

\* the raw body text, json.dumps(payload), as a number
BodyCode(b) ==
    StatusCode(b.event) + 8 * StatusCode(b.status) + 64 * b.tx_ref
    + 6400 * b.reference + 17 * b.flw_ref + 3 * b.id + 5 * b.tx_id
    + (IF "amount" \in DOMAIN b
       THEN 11 * b.amount + (IF b.currency = Currency THEN 0 ELSE 13)
       ELSE 0)

Hmac(key, b) == 1 + ((key * 7919 + BodyCode(b) * 31 + key * BodyCode(b)) % HashMod)

verify_webhook_signature_skipped(b, signature) == TRUE

\* FlutterwaveService.verify_webhook_signature
verify_webhook_signature(b, signature) ==
    signature = Hmac(WEBHOOK_SECRET, b)

----------------------------------------------------------------------------
(* State *)

VARIABLES
    deposits,            \* relational table deposits: deposit_id -> row
    withdrawals,         \* relational table withdrawals: withdrawal_id -> row
    ledger,              \* relational table transactions, in insertion order
    balances,            \* document collection balances: user_id -> record
    mongo_transactions,  \* document collection transactions
    webhook_events,      \* document collection webhook_events
    clock,               \* datetime.utcnow()
    initiating,          \* charge initiations awaiting the gateway
    verifying,           \* poll verifications awaiting the gateway
    batch,               \* the batch script: its loaded deposits still to process
    requesting,          \* withdrawal initiations awaiting the gateway
    approving            \* approval requests awaiting the gateway

sql == <<deposits, withdrawals, ledger>>
mongo == <<balances, mongo_transactions, webhook_events>>
tasks == <<initiating, verifying, batch, requesting, approving>>
vars == <<deposits, withdrawals, ledger, balances, mongo_transactions,
          webhook_events, clock, initiating, verifying, batch, requesting,
          approving>>

\* class Deposit
Deposit(u, a, ref, now) ==
    [user_id |-> u, amount |-> a, currency |-> Currency, tx_ref |-> ref,
     txid |-> NoId, status |-> "pending", created_at |-> now, completed_at |-> 0]

\* class Withdrawal
Withdrawal(u, a, now) ==
    [user_id |-> u, amount |-> a, currency |-> Currency, account |-> Account,
     transfer_id |-> NoId, status |-> "pending", created_at |-> now]

\* class Transaction
Transaction(u, type, a, st, desc, now) ==
    [user_id |-> u, type |-> type, amount |-> a, currency |-> Currency,
     status |-> st, description |-> desc, created_at |-> now]

\* autoincrement primary key of a SQLite table: one past the largest rowid
NextId(table) == Max(DOMAIN table \cup {0}) + 1

\* HTTP answer of a handler
Http(code, msg) == [code |-> code, message |-> msg]

Init ==
    /\ deposits = << >>
    /\ withdrawals = << >>
    /\ ledger = << >>
    /\ balances = << >>
    /\ mongo_transactions = << >>
    /\ webhook_events = << >>
    /\ clock = 0
    /\ initiating = {}
    /\ verifying = {}
    /\ batch = [apply |-> FALSE, expired |-> FALSE, jobs |-> << >>]
    /\ requesting = {}
    /\ approving = {}

----------------------------------------------------------------------------
(* Relational and document store primitives *)

\* unique index on deposits.flutterwave_transaction_id: NULLs never collide
TxIdTaken(id, txid) ==
    /\ txid # NoId
    /\ \E o \in DOMAIN deposits : o # id /\ deposits[o].txid = txid

\* a credit of the amount the gateway reports
CreditedAmountReported(row, data) ==
    IF "amount" \in DOMAIN data THEN data.amount ELSE row.amount

\* amount=deposit.amount of the Transaction a completion adds: the Deposit's
\* own amount, whatever the data of the gateway holds
CreditedAmount(row, data) == row.amount

\* deposit.status = "completed"; deposit.flutterwave_transaction_id = ...;
\* deposit.completed_at = utcnow(); the row as the commit writes it
Completed(row, txid, now) ==
    [row EXCEPT !.status = "completed", !.txid = txid, !.completed_at = now]

\* balances.update_one({"user_id": u}, {"$inc": {...}}, upsert=True)
IncBalance(bal, u, a) ==
    IF u \in DOMAIN bal
    THEN [bal EXCEPT ![u] = [available_balance |-> @.available_balance + a,
                             total_deposits |-> @.total_deposits + a]]
    ELSE [x \in DOMAIN bal \cup {u} |->
            IF x = u THEN [available_balance |-> a, total_deposits |-> a]
            ELSE bal[x]]

MirrorOutcomes == {"ok", "insert_fails", "update_fails"}

\* how the writes that follow the commit of a completed Deposit end: as the
\* mirror writes do, or the commit of the Transaction raises and ends the
\* handler before them
CompletionFaults == MirrorOutcomes \cup {"ledger_fails"}

\* the try block that mirrors a completed deposit into the document store;
\* an exception of either write is swallowed and skips what follows it
MirrorDeposit(id, row, outcome) ==
    /\ mongo_transactions' =
         IF outcome \in {"insert_fails", "ledger_fails"} THEN mongo_transactions
         ELSE Append(mongo_transactions,
                     [user_id |-> row.user_id, deposit_id |-> id,
                      tx_ref |-> row.tx_ref, amount |-> row.amount])
    /\ balances' =
         IF outcome = "ok" THEN IncBalance(balances, row.user_id, row.amount)
         ELSE balances

\* webhook_events.insert_one({"payload": ..., "received_at": ...}), in a try
\* block whose exception is swallowed
ArchiveEvent(payload, now, ok) ==
    webhook_events' =
        IF ok THEN Append(webhook_events, [payload |-> payload, received_at |-> now])
        ELSE webhook_events

\* db.add(row); db.commit() on a table
Insert(table, id, row) ==
    [x \in DOMAIN table \cup {id} |-> IF x = id THEN row ELSE table[x]]

\* a delete that removes nothing
DeleteNothing(table, id) == table

\* db.delete(row); db.commit() on a table
Delete(table, id) == [x \in DOMAIN table \ {id} |-> table[x]]

----------------------------------------------------------------------------
(* Charge initiation: controllers.payments.initiate_deposit and            *)
(* FlutterwaveService.initiate_deposit, split at the await of the gateway. *)

\* up to the gateway call: validate the amount, insert the pending Deposit
initiate_deposit(u, a) ==
    IF a <= 0 \/ a > 50000000
    THEN UNCHANGED vars
    ELSE /\ clock < MaxClock
         /\ NextId(deposits) <= MaxDeposits
         /\ clock' = clock + 1
         /\ deposits' = Insert(deposits, NextId(deposits),
                               Deposit(u, a, clock', clock'))
         /\ initiating' = initiating \cup {NextId(deposits)}
         /\ UNCHANGED <<withdrawals, ledger, mongo, verifying, batch,
                        requesting, approving>>

ChargeOutcomes == {"link", "rejected", "no_link", "timeout"}

\* from the gateway's answer on: keep the Deposit, or delete it when the
\* gateway refused the charge or returned no payment link
initiate_deposit_return(id, outcome) ==
    /\ id \in initiating
    /\ initiating' = initiating \ {id}
    /\ IF outcome \in {"rejected", "no_link"} /\ id \in DOMAIN deposits
       THEN deposits' = Delete(deposits, id)
       ELSE UNCHANGED deposits
    /\ UNCHANGED <<withdrawals, ledger, mongo, clock, verifying, batch,
                   requesting, approving>>

----------------------------------------------------------------------------
(* Webhook ingestion: controllers.payments.handle_webhook.  Its awaits     *)
(* (reading the body) precede every access to the stores, so the handler   *)
(* is one step.                                                            *)

Body(e, s, r, r2, f, i, i2) ==
    [event |-> e, status |-> s, tx_ref |-> r, reference |-> r2, flw_ref |-> f,
     id |-> i, tx_id |-> i2]

\* status = data.get("status") or payload.get("event")
WebhookStatus(b) == OrS(b.status, b.event)

\* tx_ref = data.get("tx_ref") or data.get("reference") or data.get("flw_ref")
WebhookRef(b) == Or(Or(b.tx_ref, b.reference), b.flw_ref)

\* flutterwave_tx_id = data.get("id") or data.get("tx_id") or data.get("flw_ref")
WebhookTxId(b) == Or(Or(b.id, b.tx_id), b.flw_ref)

DepositByRef_any(ref) ==
    IF DOMAIN deposits = {} THEN 0 ELSE CHOOSE d \in DOMAIN deposits : TRUE

\* db.query(Deposit).filter(Deposit.flutterwave_tx_ref == tx_ref).first()
DepositByRef(ref) ==
    LET hit == {d \in DOMAIN deposits : deposits[d].tx_ref = ref}
    IN IF hit = {} THEN 0 ELSE CHOOSE d \in hit : \A o \in hit : d <= o

\* the branch handle_webhook takes
webhook_branch(verif_hash, x_signature, b) ==
    LET signature == Or(verif_hash, x_signature)
        id == DepositByRef(WebhookRef(b))
    IN  IF signature = NoSig \/ ~verify_webhook_signature(b, signature)
          THEN "invalid_signature"
        ELSE IF ~IsSuccessStatus(WebhookStatus(b)) THEN "ignored"
        ELSE IF WebhookRef(b) = NoRef THEN "tx_ref_missing"
        ELSE IF id = 0 THEN "no_match"
        ELSE IF TxIdTaken(id, Str(WebhookTxId(b))) THEN "integrity_error"
        ELSE "processed"

\* what handle_webhook answers: the returned object, or the HTTPException
webhook_response(verif_hash, x_signature, b) ==
    LET branch == webhook_branch(verif_hash, x_signature, b)
    IN  CASE branch = "invalid_signature" -> Http(400, "Invalid webhook signature")
          [] branch = "ignored" -> Http(200, "Ignored non-successful webhook event")
          [] branch = "tx_ref_missing" -> Http(400, "tx_ref missing in webhook payload")
          [] branch = "no_match" -> Http(200, "No matching deposit found; event stored")
          [] branch = "integrity_error" -> Http(500, "IntegrityError")
          [] OTHER -> Http(200, "Processed deposit webhook")

handle_webhook(verif_hash, x_signature, b, archive_ok, mirror) ==
    LET branch == webhook_branch(verif_hash, x_signature, b)
        tx_ref == WebhookRef(b)
        id == DepositByRef(tx_ref)
        row == Completed(deposits[id], Str(WebhookTxId(b)), clock')
    IN
    /\ UNCHANGED <<withdrawals, tasks>>
    /\ CASE branch \in {"invalid_signature", "tx_ref_missing"} ->
              UNCHANGED <<deposits, ledger, mongo, clock>>
         [] branch \in {"ignored", "no_match"} ->
              /\ Len(webhook_events) < MaxEvents
              /\ ArchiveEvent(b, clock, archive_ok)
              /\ UNCHANGED <<deposits, ledger, balances, mongo_transactions, clock>>
         [] branch = "integrity_error" ->
              UNCHANGED <<deposits, ledger, mongo, clock>>
         [] OTHER ->
              /\ clock < MaxClock
              /\ clock' = clock + 1
              /\ deposits' = [deposits EXCEPT ![id] = row]
              /\ ledger' = IF mirror = "ledger_fails" THEN ledger
                           ELSE Append(ledger,
                                  Transaction(row.user_id, "deposit",
                                              CreditedAmount(row, b),
                                              "completed", tx_ref, clock'))
              /\ MirrorDeposit(id, row, mirror)
              /\ UNCHANGED webhook_events

----------------------------------------------------------------------------
(* The gateway's answer to a verify call *)

VerifyData(st, cc, ref, i, i2) ==
    [http |-> 200, status |-> st, chargecode |-> cc, tx_ref |-> ref, id |-> i,
     tx_id |-> i2]

\* verify_transaction raises: a non-200 answer, or the call timed out
VerifyError ==
    [http |-> 500, status |-> "", chargecode |-> "", tx_ref |-> NoRef,
     id |-> NoId, tx_id |-> NoId]

\* FlutterwaveService.verify_transaction(identifier): the answer of
\* GET /transactions/{identifier}/verify, whatever the lookup by reference
\* would answer
verify_transaction(by_id, by_ref) == by_id

\* FlutterwaveService.verify_transaction_safe(identifier): the answer of
\* verify_transaction, and when that raises the answer of
\* GET /transactions/verify_by_txref?tx_ref={identifier}
verify_transaction_safe(by_id, by_ref) ==
    IF verify_transaction(by_id, by_ref).http = 200
    THEN verify_transaction(by_id, by_ref)
    ELSE by_ref

\* str(ref) of a transaction reference: "DEP_<user>_<time>_<hex>", or the
\* text of a foreign one; never one of the success words
RefText(ref) == IF ref = NoRef THEN "" ELSE "DEP_"

\* Transaction lookup of verify_deposit_status and apply_updates: an entry of
\* the same user, amount and type created no earlier than the Deposit
tx_exists(row) ==
    \E k \in 1..Len(ledger) :
        /\ ledger[k].user_id = row.user_id
        /\ ledger[k].amount = row.amount
        /\ ledger[k].type = "deposit"
        /\ ledger[k].created_at >= row.created_at

\* the transaction id the poll and the batch write:
\* str(fw_data.get("id") or fw_data.get("tx_id") or deposit.flutterwave_transaction_id)
VerifiedTxId(data, loaded_txid) == Str(Or(Or(data.id, data.tx_id), loaded_txid))

\* a completion that a failed mirror write rolls back
CompleteByVerificationRolledBack(id, loaded_txid, data, mirror) ==
    LET row == Completed(deposits[id], VerifiedTxId(data, loaded_txid), clock')
    IN /\ clock < MaxClock
       /\ clock' = clock + 1
       /\ deposits' = IF mirror = "ok" THEN [deposits EXCEPT ![id] = row]
                      ELSE deposits
       /\ ledger' = IF tx_exists(row) \/ mirror # "ok" THEN ledger
                    ELSE Append(ledger,
                           Transaction(row.user_id, "deposit", row.amount,
                                       "completed", row.tx_ref, clock'))
       /\ MirrorDeposit(id, row, mirror)

\* the completion both the poll and the batch apply once the gateway reports
\* success: commit the Deposit, add the Transaction unless one is found,
\* mirror into the document store.  `loaded_txid` is the transaction id the
\* session holds for the Deposit.
CompleteByVerification(id, loaded_txid, data, mirror) ==
    LET row == Completed(deposits[id], VerifiedTxId(data, loaded_txid), clock')
    IN /\ clock < MaxClock
       /\ clock' = clock + 1
       /\ deposits' = [deposits EXCEPT ![id] = row]
       /\ ledger' = IF tx_exists(row) \/ mirror = "ledger_fails" THEN ledger
                    ELSE Append(ledger,
                           Transaction(row.user_id, "deposit",
                                       CreditedAmount(row, data),
                                       "completed", row.tx_ref, clock'))
       /\ MirrorDeposit(id, row, mirror)

\* the commit of the Deposit fails: the row is gone (StaleDataError) or the
\* transaction id is another Deposit's (IntegrityError)
CommitFails(id, loaded_txid, data) ==
    \/ id \notin DOMAIN deposits
    \/ TxIdTaken(id, VerifiedTxId(data, loaded_txid))

----------------------------------------------------------------------------
(* Poll verification: controllers.payments.verify_deposit_status, split at *)
(* the await of the gateway's verify call.                                 *)

\* identifier = deposit.flutterwave_transaction_id or deposit.flutterwave_tx_ref
Identifier(row) == Or(row.txid, row.tx_ref)

\* the branch verify_deposit_status takes before it calls the gateway
verify_branch(id, u) ==
    IF id \notin DOMAIN deposits \/ deposits[id].user_id # u THEN "not_found"
    ELSE IF deposits[id].status = "completed" THEN "already_completed"
    ELSE IF Identifier(deposits[id]) = 0 THEN "no_identifier"
    ELSE "verify"

\* up to the gateway call
verify_deposit_status(id, u) ==
    /\ UNCHANGED <<sql, mongo, clock, initiating, batch, requesting, approving>>
    /\ IF verify_branch(id, u) = "verify"
       THEN /\ \A p \in verifying : p.deposit_id # id
            /\ verifying' = verifying \cup
                 {[deposit_id |-> id, txid |-> deposits[id].txid]}
       ELSE UNCHANGED verifying

\* fw_status = fw_data.get("status") or fw_data.get("chargecode") or fw_data.get("tx_ref")
PollStatus(data) == OrS(OrS(data.status, data.chargecode), RefText(data.tx_ref))

\* a poll that takes a failed verify call for a reported success
verify_return_branch_unchecked(p, answer) ==
    IF answer.http = 200 /\ ~IsSuccessStatus(PollStatus(answer)) THEN "not_successful"
    ELSE IF CommitFails(p.deposit_id, p.txid, answer) THEN "commit_failed"
    ELSE "completed"

\* the branch verify_deposit_status takes on the gateway's answer
verify_return_branch(p, answer) ==
    IF answer.http # 200 THEN "verification_failed"
    ELSE IF ~IsSuccessStatus(PollStatus(answer)) THEN "not_successful"
    ELSE IF CommitFails(p.deposit_id, p.txid, answer) THEN "commit_failed"
    ELSE "completed"

\* what verify_deposit_status answers after the gateway's answer: the
\* Deposit's status as the session holds it, or the HTTPException
verify_return_response(p, answer) ==
    LET branch == verify_return_branch(p, answer)
    IN  CASE branch = "verification_failed" -> Http(500, "Verification failed")
          [] branch = "not_successful" -> Http(200, "pending")
          [] branch = "commit_failed" -> Http(500, "commit")
          [] OTHER -> Http(200, "completed")

\* from the gateway's answer on
verify_deposit_status_return(p, answer, mirror) ==
    /\ p \in verifying
    /\ verifying' = verifying \ {p}
    /\ UNCHANGED <<withdrawals, webhook_events, initiating, batch, requesting,
                   approving>>
    /\ IF verify_return_branch(p, answer) = "completed"
       THEN CompleteByVerification(p.deposit_id, p.txid, answer, mirror)
       ELSE UNCHANGED <<deposits, ledger, balances, mongo_transactions, clock>>

----------------------------------------------------------------------------
(* Batch verification: batch_verify_apply.main and apply_updates.  The     *)
(* script loads the pending Deposits, awaits all verify calls, then runs   *)
(* its loop, one Deposit per step.                                         *)

BatchLimit == 50

RECURSIVE Ascending(_)
Ascending(S) ==
    IF S = {} THEN << >>
    ELSE LET m == CHOOSE x \in S : \A y \in S : x <= y
         IN <<m>> \o Ascending(S \ {m})

Idle == [apply |-> FALSE, expired |-> FALSE, jobs |-> << >>]

\* main, up to the gathered verify calls
batch_main(apply) ==
    LET ids == Ascending({d \in DOMAIN deposits : deposits[d].status = "pending"})
        pending == SubSeq(ids, 1, IF Len(ids) < BatchLimit THEN Len(ids) ELSE BatchLimit)
        loaded == [k \in 1..Len(pending) |->
                     [deposit_id |-> pending[k], txid |-> deposits[pending[k]].txid]]
    IN /\ batch = Idle
       /\ pending # << >>
       /\ batch' = [apply |-> apply, expired |-> FALSE,
                    jobs |-> SelectSeq(loaded,
                               LAMBDA j : Identifier(deposits[j.deposit_id]) # 0)]
       /\ UNCHANGED <<sql, mongo, clock, initiating, verifying, requesting, approving>>

\* fw_status = res.get("status") or res.get("chargecode")
BatchStatus(data) == OrS(data.status, data.chargecode)

\* apply_updates(db, deposit, fw_data)
apply_updates(id, loaded_txid, data, mirror) ==
    IF CommitFails(id, loaded_txid, data)
    THEN UNCHANGED <<deposits, ledger, balances, mongo_transactions, clock>>
    ELSE CompleteByVerification(id, loaded_txid, data, mirror)

\* what apply_updates gives back to the loop: True, or the exception of the
\* Deposit's commit
apply_updates_result(id, loaded_txid, data) ==
    IF CommitFails(id, loaded_txid, data) THEN "raises" ELSE "True"

\* one turn of main's loop over the verify results
batch_apply(answer, mirror) ==
    LET job == Head(batch.jobs)
        id == job.deposit_id
        rest == [batch EXCEPT !.jobs = Tail(@)]
        done(b) == IF b.jobs = << >> THEN Idle ELSE b
        \* an expired instance is read again from its row
        loaded_txid == IF batch.expired THEN deposits[id].txid ELSE job.txid
    IN /\ batch.jobs # << >>
       /\ UNCHANGED <<withdrawals, webhook_events, initiating, verifying,
                      requesting, approving>>
       /\ IF batch.expired /\ id \notin DOMAIN deposits
          THEN \* ObjectDeletedError in the loop's print: the script ends
               /\ batch' = Idle
               /\ UNCHANGED <<deposits, ledger, balances, mongo_transactions, clock>>
          ELSE IF answer.http # 200 \/ ~IsSuccessStatus(BatchStatus(answer))
                  \/ ~batch.apply
          THEN /\ batch' = done(rest)
               /\ UNCHANGED <<deposits, ledger, balances, mongo_transactions, clock>>
          ELSE /\ batch' = done([rest EXCEPT !.expired = TRUE])
               /\ apply_updates(id, loaded_txid, answer, mirror)

----------------------------------------------------------------------------
(* Withdrawals: FlutterwaveService.initiate_withdrawal, and the            *)
(* administrator's approve_withdrawal (with execute_withdrawal) and        *)
(* reject_withdrawal.  The two that call the gateway are split at the      *)
(* await of the transfer call.                                             *)

\* how a transfer call ends: the gateway returns a transfer id, answers with
\* a non-success HTTP status, answers without a transfer id, the call raises
\* (it timed out), or it returns a transfer id and the commit of the
\* Transaction then fails
TransferOutcomes == {"transfer_id", "rejected", "no_id", "timeout", "ledger_fails"}

\* unique index on withdrawals.flutterwave_transfer_id
TransferIdTaken(id, tid) ==
    \E o \in DOMAIN withdrawals : o # id /\ withdrawals[o].transfer_id = tid

\* the transfer id and status written, the Transaction left out
ProcessingWithoutEntry(id, tid) ==
    /\ withdrawals' = [withdrawals EXCEPT ![id].transfer_id = tid,
                                          ![id].status = "processing"]
    /\ UNCHANGED ledger

\* withdrawal.flutterwave_transfer_id = str(transfer_id); status = "processing";
\* and the Transaction of the transfer
Processing(id, tid) ==
    /\ withdrawals' = [withdrawals EXCEPT ![id].transfer_id = tid,
                                          ![id].status = "processing"]
    /\ ledger' = Append(ledger,
          Transaction(withdrawals[id].user_id, "withdrawal",
                      withdrawals[id].amount, "processing",
                      withdrawals[id].account, clock))

\* up to the gateway call: insert the pending Withdrawal
initiate_withdrawal(u, a) ==
    /\ NextId(withdrawals) <= MaxWithdrawals
    /\ withdrawals' = Insert(withdrawals, NextId(withdrawals), Withdrawal(u, a, clock))
    /\ requesting' = requesting \cup {NextId(withdrawals)}
    /\ UNCHANGED <<deposits, ledger, mongo, clock, initiating, verifying, batch,
                   approving>>

\* from the gateway's answer on
initiate_withdrawal_return(id, outcome, tid) ==
    /\ id \in requesting
    /\ requesting' = requesting \ {id}
    /\ UNCHANGED <<deposits, mongo, clock, initiating, verifying, batch, approving>>
    /\ IF outcome \in {"rejected", "no_id"}
       THEN /\ withdrawals' = [withdrawals EXCEPT ![id].status = "failed"]
            /\ UNCHANGED ledger
       ELSE IF outcome \in {"timeout", "ledger_fails"} \/ TransferIdTaken(id, tid)
       THEN UNCHANGED <<withdrawals, ledger>>
       ELSE Processing(id, tid)

\* the branch approve_withdrawal takes before it calls execute_withdrawal
approve_branch(id) ==
    IF id \notin DOMAIN withdrawals THEN "not_found"
    ELSE IF withdrawals[id].status # "pending" THEN "not_pending"
    ELSE "execute"

\* approve_withdrawal up to the gateway call of execute_withdrawal; `request`
\* tells the approval requests of one Withdrawal apart
approve_withdrawal(id, request) ==
    /\ UNCHANGED <<sql, mongo, clock, initiating, verifying, batch, requesting>>
    /\ IF approve_branch(id) = "execute"
       THEN /\ \A p \in approving :
                 p.withdrawal_id = id => p.request < request
            /\ approving' = approving \cup
                 {[withdrawal_id |-> id, request |-> request]}
       ELSE UNCHANGED approving

\* an execution that takes every answer of the gateway for an accepted transfer
execute_branch_accepting(id, outcome, tid) == "processing"

\* how execute_withdrawal ends on the gateway's answer: the refusals, the
\* raised call and the commit that meets the unique index end before anything
\* but the status is written; the failed commit of the Transaction comes
\* after the commit of the transfer id
execute_branch(id, outcome, tid) ==
    IF outcome \in {"rejected", "no_id", "timeout"} THEN "failed"
    ELSE IF TransferIdTaken(id, tid) THEN "failed"
    ELSE IF outcome = "ledger_fails" THEN "failed_after_commit"
    ELSE "processing"

\* execute_withdrawal from the gateway's answer on, and approve_withdrawal's
\* handling of its exception
execute_withdrawal(p, outcome, tid) ==
    LET id == p.withdrawal_id
        branch == execute_branch(id, outcome, tid)
    IN
    /\ p \in approving
    /\ approving' = approving \ {p}
    /\ UNCHANGED <<deposits, mongo, clock, initiating, verifying, batch, requesting>>
    /\ IF branch = "failed_after_commit"
       THEN \* committed as processing, then set failed by approve_withdrawal
            /\ withdrawals' = [withdrawals EXCEPT ![id].transfer_id = tid,
                                                  ![id].status = "failed"]
            /\ UNCHANGED ledger
       ELSE IF branch = "failed"
       THEN /\ withdrawals' = [withdrawals EXCEPT ![id].status = "failed"]
            /\ UNCHANGED ledger
       ELSE Processing(id, tid)

\* a status test that lets every Withdrawal through
reject_branch_any(id) ==
    IF id \notin DOMAIN withdrawals THEN "not_found" ELSE "reject"

\* the branch reject_withdrawal takes
reject_branch(id) ==
    IF id \notin DOMAIN withdrawals THEN "not_found"
    ELSE IF withdrawals[id].status # "pending" THEN "not_pending"
    ELSE "reject"

\* the answer of reject_withdrawal
reject_response(id) ==
    CASE reject_branch(id) = "not_found" -> Http(404, "Withdrawal not found")
      [] reject_branch(id) = "not_pending" -> Http(400, "Withdrawal is not pending")
      [] OTHER -> Http(200, "rejected")

reject_withdrawal(id) ==
    /\ UNCHANGED <<deposits, ledger, mongo, clock, tasks>>
    /\ IF reject_branch(id) = "reject"
       THEN withdrawals' = [withdrawals EXCEPT ![id].status = "rejected"]
       ELSE UNCHANGED withdrawals

----------------------------------------------------------------------------
(* Balance Accounting Engine: helpers.calculate_user_balance *)

\* db.query(func.sum(column)).filter(...).scalar() or 0.0
SumAmounts(table, ids) == SumOver(ids, [x \in ids |-> table[x].amount])

BalanceResponse(total_deposits, total_withdrawals, pending_withdrawals) ==
    [available_balance |-> total_deposits - total_withdrawals,
     total_deposits |-> total_deposits,
     total_withdrawals |-> total_withdrawals,
     pending_withdrawals |-> pending_withdrawals,
     net_available |-> (total_deposits - total_withdrawals) - pending_withdrawals]

calculate_user_balance_completed_only(user_id) ==
    BalanceResponse(
        SumAmounts(deposits, {d \in DOMAIN deposits :
            deposits[d].user_id = user_id /\ deposits[d].status = "completed"}),
        SumAmounts(withdrawals, {w \in DOMAIN withdrawals :
            withdrawals[w].user_id = user_id /\ withdrawals[w].status = "completed"}),
        SumAmounts(withdrawals, {w \in DOMAIN withdrawals :
            withdrawals[w].user_id = user_id /\ withdrawals[w].status = "pending"}))

\* a balance that counts a processing Withdrawal as pending
calculate_user_balance_processing_pending(user_id) ==
    BalanceResponse(
        SumAmounts(deposits, {d \in DOMAIN deposits :
            deposits[d].user_id = user_id /\ deposits[d].status = "completed"}),
        SumAmounts(withdrawals, {w \in DOMAIN withdrawals :
            withdrawals[w].user_id = user_id /\ withdrawals[w].status = "completed"}),
        SumAmounts(withdrawals, {w \in DOMAIN withdrawals :
            withdrawals[w].user_id = user_id
            /\ withdrawals[w].status \in {"pending", "processing"}}))

calculate_user_balance(user_id) ==
    BalanceResponse(
        SumAmounts(deposits, {d \in DOMAIN deposits :
            deposits[d].user_id = user_id /\ deposits[d].status = "completed"}),
        SumAmounts(withdrawals, {w \in DOMAIN withdrawals :
            withdrawals[w].user_id = user_id
            /\ withdrawals[w].status \in {"completed", "processing"}}),
        SumAmounts(withdrawals, {w \in DOMAIN withdrawals :
            withdrawals[w].user_id = user_id /\ withdrawals[w].status = "pending"}))

\* controllers.users.get_balance: the user's document of the balance cache
\* when the document store answers and holds one (a field the document lacks
\* reads 0.0), else the figures of calculate_user_balance
get_balance(user_id, mongo_ok) ==
    IF mongo_ok /\ user_id \in DOMAIN balances
    THEN [available_balance |-> balances[user_id].available_balance,
          total_deposits |-> balances[user_id].total_deposits,
          total_withdrawals |-> 0,
          pending_withdrawals |-> 0,
          net_available |-> balances[user_id].available_balance - 0]
    ELSE calculate_user_balance(user_id)

----------------------------------------------------------------------------
(* Withdrawal eligibility: helpers.validate_withdrawal_eligibility *)

\* ticks of the clock in one calendar day
DayLength == 2

\* func.date(created_at), date.today()
Date(t) == t \div DayLength

\* f"${x:.2f}" of an amount without fraction: the units and two decimals
Fixed2(x) == <<x, 0>>

\* the reasons returned; an eligible request has the empty reason
Reason(text, quoted) == [text |-> text, quoted |-> quoted]
InsufficientBalance(net_available) ==
    Reason("Insufficient balance. Available: $", Fixed2(net_available))
MinimumWithdrawal == Reason("Minimum withdrawal amount is $500", << >>)
DailyLimitExceeded(remaining) ==
    Reason("Daily withdrawal limit exceeded. Remaining: $", Fixed2(remaining))
NoReason == Reason("", << >>)

\* sum of the user's Withdrawals created today in pending, processing or
\* completed
today_withdrawals(user_id) ==
    SumAmounts(withdrawals, {w \in DOMAIN withdrawals :
        /\ withdrawals[w].user_id = user_id
        /\ withdrawals[w].status \in {"pending", "processing", "completed"}
        /\ Date(withdrawals[w].created_at) = Date(clock)})

\* the checks with the minimum tested before the balance
validate_withdrawal_eligibility_minimum_first(user_id, requested_amount) ==
    LET balance_info == calculate_user_balance(user_id)
        daily_limit == 1000000
    IN  IF requested_amount < 500
        THEN <<FALSE, MinimumWithdrawal>>
        ELSE IF requested_amount > balance_info.net_available
        THEN <<FALSE, InsufficientBalance(balance_info.net_available)>>
        ELSE IF today_withdrawals(user_id) + requested_amount > daily_limit
        THEN <<FALSE, DailyLimitExceeded(daily_limit - today_withdrawals(user_id))>>
        ELSE <<TRUE, NoReason>>

\* (is_eligible, reason_if_not)
validate_withdrawal_eligibility(user_id, requested_amount) ==
    LET balance_info == calculate_user_balance(user_id)
        daily_limit == 1000000
    IN  IF requested_amount > balance_info.net_available
        THEN <<FALSE, InsufficientBalance(balance_info.net_available)>>
        ELSE IF requested_amount < 500
        THEN <<FALSE, MinimumWithdrawal>>
        ELSE IF today_withdrawals(user_id) + requested_amount > daily_limit
        THEN <<FALSE, DailyLimitExceeded(daily_limit - today_withdrawals(user_id))>>
        ELSE <<TRUE, NoReason>>

\* amounts a user asks to withdraw
RequestedAmounts == {100, 200, 500, 1500, 999900}

----------------------------------------------------------------------------
(* Requests the environment can send *)

DepositRefs == {deposits[d].tx_ref : d \in DOMAIN deposits}

\* the events the gateway sends for the charges of this system
GatewayEvents ==
    {Body("charge.completed", "successful", r, NoRef, NoId, i, NoId) :
        r \in DepositRefs, i \in TxIds}

\* bodies a webhook request can carry: the gateway's events, events for a
\* reference that is not of this system or with none, events that report no
\* success, and events that carry their fields under the alternative keys
WebhookBodies ==
    GatewayEvents
    \cup {Body("charge.completed", "successful", r, NoRef, NoId, 901, NoId) :
            r \in {ForeignRef, NoRef}}
    \cup {Body("charge.completed", "failed", r, NoRef, NoId, 901, NoId) :
            r \in DepositRefs}
    \cup {Body("Charge.Completed", "", NoRef, r, NoId, NoId, 902) : r \in DepositRefs}
    \cup {Body("", "", NoRef, ForeignRef, NoId, NoId, 902),
          Body("", "SUCCESSFUL", NoRef, NoRef, FlwRef, NoId, NoId)}

\* a body of the same event with another transaction id in it
Tampered(b) == [b EXCEPT !.id = IF @ = 901 THEN 902 ELSE 901]

\* the signature headers <<verif-hash, x-flutterwave-signature>> of the gateway
Signed(b) == {<<Hmac(WEBHOOK_SECRET, b), NoSig>>}

\* signature headers that can come with body b: the sender's HMAC under the
\* shared secret in either header, none, an HMAC under another secret, and
\* the genuine HMAC of the body before it was tampered with
SignatureHeaders(b) ==
    Signed(b)
    \cup {<<NoSig, Hmac(WEBHOOK_SECRET, b)>>, <<NoSig, NoSig>>,
          <<Hmac(WrongSecret, b), NoSig>>,
          <<Hmac(WEBHOOK_SECRET, Tampered(b)), Hmac(WEBHOOK_SECRET, b)>>}

\* amounts and currencies the gateway reports for a charge: those of the
\* Deposit and others
ReportedAmounts == {5, 100}
ReportedCurrencies == {Currency, "NGN"}

\* the gateway's events with the amount and currency charged
ReportingEvents ==
    {Reported(b, a, c) :
        b \in GatewayEvents, a \in ReportedAmounts, c \in ReportedCurrencies}

\* the gateway's verify answers with the amount and currency charged
ReportingAnswers ==
    {VerifyError}
    \cup {Reported(VerifyData("successful", "", NoRef, 901, NoId), a, c) :
            a \in ReportedAmounts, c \in ReportedCurrencies}

VerifyAnswers ==
    {VerifyError}
    \cup {VerifyData(st, "", NoRef, i, NoId) :
            st \in {"successful", "failed"}, i \in TxIds \cup {NoId}}
    \cup {VerifyData("SUCCESSFUL", "", NoRef, NoId, 902),
          VerifyData("", "00", ForeignRef, NoId, 901),
          VerifyData("", "", ForeignRef, NoId, NoId)}

\* the faults of the document store a webhook request can meet: whether the
\* archive write succeeds, and how the mirror write ends; only the writes the
\* handler reaches are drawn
WebhookFaults(h, b) ==
    LET branch == webhook_branch(h[1], h[2], b)
    IN  IF branch = "processed" THEN {<<TRUE, m>> : m \in MirrorOutcomes}
        ELSE IF branch \in {"ignored", "no_match"} THEN {<<TRUE, "ok">>, <<FALSE, "ok">>}
        ELSE {<<TRUE, "ok">>}

\* how the mirror write ends after a verify answer, out of `mirrors`; only
\* drawn when the answer reports success
MirrorFaults(status, mirrors) ==
    IF IsSuccessStatus(status) THEN mirrors ELSE {"ok"}

DepositSteps(users, amounts) ==
    \/ \E u \in users, a \in amounts : initiate_deposit(u, a)
    \/ \E id \in initiating, o \in ChargeOutcomes : initiate_deposit_return(id, o)

\* requests to the webhook endpoint that carry one of `bodies`, with any
\* signature headers when `forged`, else with the gateway's
RequestSteps(bodies, forged) ==
    \E b \in bodies :
        \E h \in (IF forged THEN SignatureHeaders(b) ELSE Signed(b)) :
            \E f \in WebhookFaults(h, b) : handle_webhook(h[1], h[2], b, f[1], f[2])

\* any request to the webhook endpoint
WebhookSteps == RequestSteps(WebhookBodies, TRUE)

\* the gateway's deliveries, each any number of times
GatewaySteps(mirrors) ==
    \E b \in GatewayEvents :
        \E h \in Signed(b), m \in mirrors :
            handle_webhook(h[1], h[2], b, TRUE, m)

\* the users' polls, answered by the gateway out of `answers`
PollStepsOn(users, answers, mirrors) ==
    \/ \E id \in 1..MaxDeposits, u \in users : verify_deposit_status(id, u)
    \/ \E p \in verifying, a \in answers :
         \E m \in MirrorFaults(PollStatus(a), mirrors) :
            verify_deposit_status_return(p, a, m)

\* the users' polls
PollSteps(users, mirrors) == PollStepsOn(users, VerifyAnswers, mirrors)

\* runs of the batch script, answered by the gateway out of `answers`
BatchStepsOn(answers, mirrors) ==
    \/ \E apply \in BOOLEAN : batch_main(apply)
    \/ \E a \in answers :
         \E m \in MirrorFaults(BatchStatus(a), mirrors) : batch_apply(a, m)

\* runs of the batch script
BatchSteps(mirrors) == BatchStepsOn(VerifyAnswers, mirrors)

VerificationSteps(users, mirrors) == PollSteps(users, mirrors) \/ BatchSteps(mirrors)

\* the users' withdrawal requests
InitiationSteps(users, amounts) ==
    \/ \E u \in users, a \in amounts : initiate_withdrawal(u, a)
    \/ \E id \in requesting, o \in TransferOutcomes, t \in TransferIds :
         initiate_withdrawal_return(id, o, t)

\* the administrators' calls for the Withdrawals `ids`, up to
\* Cardinality(requests) approval requests of one Withdrawal at a time
AdminSteps(ids, requests) ==
    \/ \E id \in ids, k \in requests : approve_withdrawal(id, k)
    \/ \E p \in approving, o \in TransferOutcomes, t \in TransferIds :
         execute_withdrawal(p, o, t)
    \/ \E id \in ids : reject_withdrawal(id)

WithdrawalSteps(users, amounts) ==
    InitiationSteps(users, amounts) \/ AdminSteps(1..MaxWithdrawals, {1})

\* the whole system
Next ==
    \/ DepositSteps(Users, Amounts \cup {0})
    \/ WebhookSteps
    \/ VerificationSteps(Users, MirrorOutcomes)
    \/ WithdrawalSteps(Users, Amounts)

Spec == Init /\ [][Next]_vars

\* the webhook endpoint under every body the gateway can sign, for the
\* Deposits of one user
NextWebhook == DepositSteps({1}, {100, 0}) \/ RequestSteps(WebhookBodies, FALSE)
SpecWebhook == Init /\ [][NextWebhook]_vars

\* the gateway's events under every signature a request can carry
NextSignature == DepositSteps({1}, {100}) \/ RequestSteps(GatewayEvents, TRUE)
SpecSignature == Init /\ [][NextSignature]_vars

\* the three ways a Deposit is completed, racing over the Deposits of one user
NextCompletion ==
    \/ DepositSteps({1}, {100})
    \/ GatewaySteps(MirrorOutcomes)
    \/ VerificationSteps({1}, MirrorOutcomes)
SpecCompletion == Init /\ [][NextCompletion]_vars

\* the ledger of two users: Deposits completed by the gateway's events, and
\* Withdrawals
NextLedger ==
    \/ DepositSteps(Users, {200})
    \/ GatewaySteps({"ok"})
    \/ WithdrawalSteps(Users, {100})
SpecLedger == Init /\ [][NextLedger]_vars

\* the gateway's deliveries alone, for the Deposits of one user
NextGateway == DepositSteps({1}, {100}) \/ GatewaySteps(MirrorOutcomes)
SpecGateway == Init /\ [][NextGateway]_vars

\* the three ways a Deposit is completed while the document store takes
\* every write
NextMirrored ==
    \/ DepositSteps({1}, {100})
    \/ GatewaySteps({"ok"})
    \/ VerificationSteps({1}, {"ok"})
SpecMirrored == Init /\ [][NextMirrored]_vars

\* the gateway's deliveries racing with the polls of the Deposits' owner
NextRace ==
    \/ DepositSteps({1}, {100})
    \/ GatewaySteps(MirrorOutcomes)
    \/ PollSteps({1}, MirrorOutcomes)
SpecRace == Init /\ [][NextRace]_vars

\* Deposits of one user completed by poll verification and batch apply only
NextVerification == DepositSteps({1}, {100}) \/ VerificationSteps({1}, MirrorOutcomes)
SpecVerification == Init /\ [][NextVerification]_vars

\* the administrators' calls, two approval requests of a Withdrawal at a
\* time, for the Withdrawals whose initiation request has ended, beside the
\* charge initiations of a user
NextApproval ==
    \/ DepositSteps({1}, {200})
    \/ InitiationSteps(Users, {100})
    \/ AdminSteps((1..MaxWithdrawals) \ requesting, {1, 2})
SpecApproval == Init /\ [][NextApproval]_vars

\* the ledger of one user whose amounts reach the minimum and the daily limit
\* of a withdrawal
NextEligibility ==
    \/ DepositSteps({1}, {1000, 1000200})
    \/ GatewaySteps({"ok"})
    \/ WithdrawalSteps({1}, {500, 999900})
SpecEligibility == Init /\ [][NextEligibility]_vars

\* Deposits of one user completed by polls whose Transaction commit can fail;
\* the user keeps polling and the gateway keeps answering
NextRetry == DepositSteps({1}, {100}) \/ PollSteps({1}, CompletionFaults)
SpecRetry ==
    Init /\ [][NextRetry]_vars /\ WF_vars(PollSteps({1}, CompletionFaults))

\* Deposits completed by a gateway that reports the amount
\* and currency charged in its events and verify answers
NextAmounts ==
    \/ DepositSteps({1}, {100})
    \/ RequestSteps(ReportingEvents, FALSE)
    \/ PollStepsOn({1}, ReportingAnswers, {"ok"})
    \/ BatchStepsOn(ReportingAnswers, {"ok"})
SpecAmounts == Init /\ [][NextAmounts]_vars

----------------------------------------------------------------------------
(* Properties *)

\* the Ledger Entries of type deposit of Deposit d: the deposit transactions
\* whose description carries its transaction reference
EntriesOf(d) ==
    {k \in 1..Len(ledger) :
        ledger[k].type = "deposit" /\ ledger[k].description = deposits[d].tx_ref}

\* event b was delivered before and completed its Deposit
Delivered(b) ==
    LET d == DepositByRef(WebhookRef(b))
    IN  /\ d # 0
        /\ deposits[d].status = "completed"
        /\ deposits[d].txid = Str(WebhookTxId(b))

\* C1: a second (or later) delivery of the same validly signed successful
\* webhook event for a Deposit's transaction reference adds no Ledger Entry.
C1_SecondDeliveryAddsNoEntry ==
    [][\A b \in GatewayEvents : \A h \in Signed(b), m \in MirrorOutcomes :
          Delivered(b) /\ handle_webhook(h[1], h[2], b, TRUE, m)
              => ledger' = ledger]_vars

\* total_deposits of the balance cache record of user u
CacheTotal(bal, u) == IF u \in DOMAIN bal THEN bal[u].total_deposits ELSE 0

\* the amounts of the Deposits of user u that a step takes from pending to
\* completed
NewlyCompleted(u) ==
    LET ids == {d \in DOMAIN deposits \cap DOMAIN deposits' :
                  /\ deposits[d].user_id = u
                  /\ deposits[d].status = "pending"
                  /\ deposits'[d].status = "completed"}
    IN  SumAmounts(deposits, ids)

\* C2: while every mirror write succeeds, the balance cache record of a user
\* is incremented by the amount of a Deposit exactly once, in the step that
\* completes the Deposit, and never again by a later completion attempt
\* (webhook, poll verification, batch apply).
C2_CacheIncrementedOncePerDeposit ==
    [][\A u \in Users :
          CacheTotal(balances', u) - CacheTotal(balances, u) = NewlyCompleted(u)]_vars

\* C3: when a webhook delivery completes a Deposit while a poll-driven
\* verification of it awaits the gateway, the poll, on the gateway's answer,
\* observes the completed state and changes nothing, and exactly one Ledger
\* Entry of the Deposit exists afterwards.
C3_RaceLoserChangesNothing ==
    [][\A p \in verifying : \A a \in VerifyAnswers, m \in MirrorOutcomes :
          /\ p.deposit_id \in DOMAIN deposits
          /\ deposits[p.deposit_id].status = "completed"
          /\ verify_deposit_status_return(p, a, m)
          => /\ UNCHANGED <<sql, mongo>>
             /\ Cardinality(EntriesOf(p.deposit_id)') = 1]_vars

\* C4: no step (webhook, poll verification, batch apply) changes the status,
\* the gateway transaction id or the completion timestamp of a Deposit that
\* is already completed.
C4_CompletedDepositFrozen ==
    [][\A d \in DOMAIN deposits \cap DOMAIN deposits' :
          deposits[d].status = "completed"
          => /\ deposits'[d].status = deposits[d].status
             /\ deposits'[d].txid = deposits[d].txid
             /\ deposits'[d].completed_at = deposits[d].completed_at]_vars

\* the amounts of the rows 1..n of a table that are of user u and in one of
\* the statuses, added up row by row
RECURSIVE SumRows(_, _, _, _)
SumRows(table, n, u, statuses) ==
    IF n = 0 THEN 0
    ELSE SumRows(table, n - 1, u, statuses)
         + (IF n \in DOMAIN table /\ table[n].user_id = u
                  /\ table[n].status \in statuses
            THEN table[n].amount ELSE 0)

\* C5: in every reachable ledger state and for every user,
\* calculate_user_balance returns available_balance = total_deposits -
\* total_withdrawals and net_available = available_balance -
\* pending_withdrawals, with total_deposits the sum of the completed Deposits,
\* total_withdrawals the sum of the completed and processing Withdrawals and
\* pending_withdrawals the sum of the pending Withdrawals of the user.
C5_BalanceIdentities ==
    \A u \in Users :
        LET r == calculate_user_balance(u)
        IN  /\ r.available_balance = r.total_deposits - r.total_withdrawals
            /\ r.net_available = r.available_balance - r.pending_withdrawals
            /\ r.total_deposits =
                 SumRows(deposits, MaxDeposits + 1, u, {"completed"})
            /\ r.total_withdrawals =
                 SumRows(withdrawals, MaxWithdrawals + 1, u, {"completed", "processing"})
            /\ r.pending_withdrawals =
                 SumRows(withdrawals, MaxWithdrawals + 1, u, {"pending"})

\* a user with a completed Deposit and a processing Withdrawal, beside
\* another user with a completed Deposit
C5_Witness ==
    \E u \in Users, v \in Users :
        /\ u # v
        /\ calculate_user_balance(u).total_deposits = 200
        /\ calculate_user_balance(u).total_withdrawals = 100
        /\ calculate_user_balance(u).available_balance = 100
        /\ calculate_user_balance(v).total_deposits = 200
        /\ calculate_user_balance(v).total_withdrawals = 0

\* the signature handle_webhook reads from the headers h is missing, or is
\* not the HMAC of body b under the shared secret
Unauthentic(h, b) ==
    LET signature == IF h[1] # NoSig THEN h[1] ELSE h[2]
    IN  signature = NoSig \/ signature # Hmac(WEBHOOK_SECRET, b)

\* C6: a webhook request whose signature is missing or is not the HMAC of the
\* raw body under the shared secret is answered "Invalid webhook signature"
\* whatever its payload says, and changes no Deposit, Withdrawal, Ledger
\* Entry, balance-cache record or Webhook Event.
C6_UnauthenticRejected ==
    /\ [](\A b \in WebhookBodies : \A h \in SignatureHeaders(b) :
            Unauthentic(h, b)
            => webhook_response(h[1], h[2], b) = Http(400, "Invalid webhook signature"))
    /\ [][\/ UNCHANGED <<sql, mongo>>
          \/ \A b \in WebhookBodies : \A h \in SignatureHeaders(b) :
               Unauthentic(h, b)
               => \A archive_ok \in BOOLEAN, mirror \in MirrorOutcomes :
                     ~handle_webhook(h[1], h[2], b, archive_ok, mirror)]_vars

\* a pending Deposit whose successful event is posted without a signature,
\* signed under another secret, and under the signature of another body
C6_Witness ==
    \E d \in DOMAIN deposits : \E b \in GatewayEvents :
        /\ deposits[d].status = "pending"
        /\ deposits[d].tx_ref = WebhookRef(b)
        /\ d \notin initiating
        /\ \E h \in SignatureHeaders(b) : h[1] = NoSig /\ h[2] = NoSig
        /\ \E h \in SignatureHeaders(b) :
              h[1] = Hmac(WrongSecret, b) /\ Unauthentic(h, b)
        /\ \E h \in SignatureHeaders(b) :
              h[1] = Hmac(WEBHOOK_SECRET, Tampered(b)) /\ Unauthentic(h, b)

\* the requests that carry one of the bodies a webhook can carry that
\* satisfies `class`, under a genuine signature: pairs <<headers, body>>
Authentic(class(_)) ==
    UNION {{<<h, b>> : h \in {g \in SignatureHeaders(b) : ~Unauthentic(g, b)}} :
             b \in {c \in WebhookBodies : class(c)}}

\* body b reports success and names a transaction reference no Deposit carries
Unmatched(b) ==
    /\ IsSuccessStatus(WebhookStatus(b))
    /\ WebhookRef(b) # NoRef
    /\ WebhookRef(b) \notin DepositRefs

NotSuccess(b) == Lower(WebhookStatus(b)) \notin SuccessWords

\* C8: a validly signed webhook whose status is not a recognized success
\* indicator is acknowledged with success whether or not the archive write
\* succeeds, changes no Deposit, Ledger Entry or balance-cache record, and is
\* archived as a Webhook Event (by the archive write, when that succeeds).
C8_NonSuccessIgnored ==
    /\ [](\A r \in Authentic(NotSuccess) :
            webhook_response(r[1][1], r[1][2], r[2])
              = Http(200, "Ignored non-successful webhook event"))
    /\ [][\A r \in Authentic(NotSuccess) :
            \A archive_ok \in BOOLEAN, mirror \in MirrorOutcomes :
               handle_webhook(r[1][1], r[1][2], r[2], archive_ok, mirror)
               => /\ UNCHANGED <<deposits, ledger, balances, mongo_transactions>>
                  /\ archive_ok
                     => webhook_events' =
                          Append(webhook_events,
                                 [payload |-> r[2], received_at |-> clock])]_vars

\* the archive holds a "failed" event for the reference of a Deposit that is
\* still pending, and no Ledger Entry or cache record exists
C8_Witness ==
    /\ \E k \in 1..Len(webhook_events) : \E d \in DOMAIN deposits :
          /\ webhook_events[k].payload.status = "failed"
          /\ WebhookRef(webhook_events[k].payload) = deposits[d].tx_ref
          /\ deposits[d].status = "pending"
    /\ ledger = << >>
    /\ balances = << >>

\* body b reports success and no transaction reference can be extracted from
\* it
NoReference(b) == IsSuccessStatus(WebhookStatus(b)) /\ WebhookRef(b) = NoRef

\* C9: a validly signed success webhook from which no transaction reference
\* can be extracted is refused as malformed, has its raw payload archived as
\* a Webhook Event (when the archive write succeeds), and changes no Deposit,
\* Ledger Entry or balance-cache record.
C9_MalformedArchived ==
    /\ [](\A r \in Authentic(NoReference) :
            /\ webhook_response(r[1][1], r[1][2], r[2])
                 = Http(400, "tx_ref missing in webhook payload")
            /\ ~ENABLED (/\ handle_webhook(r[1][1], r[1][2], r[2], TRUE, "ok")
                         /\ webhook_events' = webhook_events))
    /\ [][\A r \in Authentic(NoReference) :
            \A archive_ok \in BOOLEAN, mirror \in MirrorOutcomes :
               handle_webhook(r[1][1], r[1][2], r[2], archive_ok, mirror)
               => UNCHANGED <<deposits, ledger, balances>>]_vars

\* C10: whenever no poll verification awaits the gateway and no batch run
\* is under way, every completed Deposit has exactly one Ledger Entry of its
\* own, also when its owner has other Deposits of the same amount.
C10_OneEntryPerCompletedDeposit ==
    verifying = {} /\ batch = Idle
    => \A d \in DOMAIN deposits :
          deposits[d].status = "completed" => Cardinality(EntriesOf(d)) = 1

\* the Ledger Entries of type withdrawal that can be those of Withdrawal w:
\* of its user, its amount and its account
WithdrawalEntries(w) ==
    {k \in 1..Len(ledger) :
        /\ ledger[k].type = "withdrawal"
        /\ ledger[k].user_id = withdrawals[w].user_id
        /\ ledger[k].amount = withdrawals[w].amount
        /\ ledger[k].description = withdrawals[w].account}

\* no other Withdrawal has the user, amount and account of Withdrawal w
Distinguished(w) ==
    \A o \in DOMAIN withdrawals \ {w} :
        \/ withdrawals[o].user_id # withdrawals[w].user_id
        \/ withdrawals[o].amount # withdrawals[w].amount
        \/ withdrawals[o].account # withdrawals[w].account

\* C11: whenever no initiation and no approval awaits the gateway, every
\* Withdrawal in status processing or completed has exactly one Ledger Entry
\* of type withdrawal, under any interleaving of approve and reject calls
\* for it.
C11_OneEntryPerWithdrawal ==
    requesting = {} /\ approving = {}
    => \A w \in DOMAIN withdrawals :
          withdrawals[w].status \in {"processing", "completed"} /\ Distinguished(w)
          => Cardinality(WithdrawalEntries(w)) = 1

\* the status changes of a Withdrawal that the lifecycle allows
StatusEdges ==
    {<<"pending", "processing">>, <<"pending", "failed">>,
     <<"pending", "rejected">>, <<"processing", "completed">>,
     <<"processing", "failed">>}

\* C12: every change of a Withdrawal's status follows one of the edges
\* pending -> processing, pending -> failed, pending -> rejected,
\* processing -> completed, processing -> failed; a rejected or failed
\* Withdrawal never changes status again, also when an approval that awaits
\* the gateway is interleaved with a rejection of the same Withdrawal.
C12_StatusFollowsEdges ==
    [][\A w \in DOMAIN withdrawals \cap DOMAIN withdrawals' :
          withdrawals'[w].status # withdrawals[w].status
          => <<withdrawals[w].status, withdrawals'[w].status>> \in StatusEdges]_vars

\* the approval requests of Withdrawal w whose transfer call has been issued
\* and has not yet returned
TransfersInFlight(w) == {p \in approving : p.withdrawal_id = w}

\* C13: for a single Withdrawal the gateway transfer call is issued at most
\* once over any set of concurrent or repeated approve requests: no approve
\* request issues the call while another transfer call for the same
\* Withdrawal is in flight, nor for a Withdrawal that is no longer pending or
\* already carries a transfer id.
C13_TransferIssuedAtMostOnce ==
    [][\A p \in approving' \ approving :
          /\ TransfersInFlight(p.withdrawal_id) = {}
          /\ withdrawals[p.withdrawal_id].status = "pending"
          /\ withdrawals[p.withdrawal_id].transfer_id = NoId]_vars

\* C14: reject_withdrawal on a Withdrawal in status pending sets it to
\* rejected and creates or changes no Ledger Entry; on a Withdrawal in any
\* other status it fails with an error and leaves the Withdrawal and the
\* ledger unchanged.
C14_RejectOnlyFromPending ==
    /\ [](\A id \in DOMAIN withdrawals :
            reject_response(id).code
              = IF withdrawals[id].status = "pending" THEN 200 ELSE 400)
    /\ [][\A id \in DOMAIN withdrawals :
            reject_withdrawal(id)
            => /\ ledger' = ledger
               /\ withdrawals' =
                    IF withdrawals[id].status = "pending"
                    THEN [withdrawals EXCEPT ![id].status = "rejected"]
                    ELSE withdrawals]_vars

\* a Withdrawal has been rejected with no Ledger Entry of its own, and a
\* rejection of it is now refused
C14_Witness ==
    \E id \in DOMAIN withdrawals :
        /\ withdrawals[id].status = "rejected"
        /\ WithdrawalEntries(id) = {}
        /\ ~ENABLED (reject_withdrawal(id) /\ withdrawals' # withdrawals)

\* the answers by which the gateway refuses a transfer: a non-success HTTP
\* status, or a body without a transfer id
Refusals == {"rejected", "no_id"}

C16_AcceptedTransferProcessing ==
    [][\A p \in approving : \A t \in TransferIds :
          execute_withdrawal(p, "transfer_id", t)
             /\ ~TransferIdTaken(p.withdrawal_id, t)
          => LET id == p.withdrawal_id
             IN  /\ withdrawals' = [withdrawals EXCEPT ![id].transfer_id = t,
                                                       ![id].status = "processing"]
                 /\ Len(ledger') = Len(ledger) + 1
                 /\ SubSeq(ledger', 1, Len(ledger)) = ledger
                 /\ ledger'[Len(ledger')].type = "withdrawal"
                 /\ ledger'[Len(ledger')].status = "processing"
                 /\ ledger'[Len(ledger')].amount = withdrawals[id].amount
                 /\ ledger'[Len(ledger')].user_id = withdrawals[id].user_id]_vars

\* an approval of a pending Withdrawal awaits the gateway, and the accepted
\* transfer now makes it processing with the transfer id and one more
\* Ledger Entry
C16_Witness ==
    \E p \in approving :
        /\ withdrawals[p.withdrawal_id].status = "pending"
        /\ WithdrawalEntries(p.withdrawal_id) = {}
        /\ ENABLED (/\ execute_withdrawal(p, "transfer_id", 701)
                    /\ withdrawals'[p.withdrawal_id].status = "processing"
                    /\ withdrawals'[p.withdrawal_id].transfer_id = 701
                    /\ Len(ledger') = Len(ledger) + 1)

\* the ends of a dispatched transfer request whose outcome at the gateway is
\* unknown: the call raised (it timed out), or a local error came after the
\* transfer id and the processing status were committed
UnknownOutcomes == {"timeout", "ledger_fails"}

\* C17: once the transfer request for a Withdrawal has been dispatched to the
\* gateway, a failure with unknown outcome (the call timing out, or a local
\* error after the transfer id and processing status were committed) leaves
\* the Withdrawal in processing: the approval path never sets it to failed or
\* back to pending.
C17_UnknownOutcomeStaysProcessing ==
    [][\A p \in approving : \A o \in UnknownOutcomes, t \in TransferIds :
          execute_withdrawal(p, o, t)
          => withdrawals'[p.withdrawal_id].status = "processing"]_vars

\* C18: for every ledger state, validate_withdrawal_eligibility with a
\* requested amount below 500 returns not eligible with the below-minimum
\* reason, whatever the user's balance is (a net_available smaller than the
\* requested amount included).
C18_BelowMinimumWhateverBalance ==
    \A u \in Users, r \in RequestedAmounts :
        r < 500
        => validate_withdrawal_eligibility(u, r) = <<FALSE, MinimumWithdrawal>>

\* C19: for every ledger state, validate_withdrawal_eligibility with
\* requested_amount > net_available returns not eligible with the
\* insufficient-funds reason quoting the current net_available, and a request
\* with requested_amount <= net_available is never rejected for insufficient
\* funds.
C19_InsufficientFundsIffAboveNet ==
    \A u \in Users, r \in RequestedAmounts :
        LET net_available == calculate_user_balance(u).net_available
            answer == validate_withdrawal_eligibility(u, r)
        IN  /\ r > net_available
                => answer = <<FALSE, Reason("Insufficient balance. Available: $",
                                            Fixed2(net_available))>>
            /\ r <= net_available
                => answer[2].text # "Insufficient balance. Available: $"

\* a user with net_available 1000 is refused 1500 with the 1000 quoted, and
\* is not refused 500
C19_Witness ==
    /\ calculate_user_balance(1).net_available = 1000
    /\ validate_withdrawal_eligibility(1, 1500)
         = <<FALSE, InsufficientBalance(1000)>>
    /\ validate_withdrawal_eligibility(1, 500) = <<TRUE, NoReason>>

\* C20: for every ledger state, when the sum of the user's Withdrawals
\* created today in statuses pending, processing or completed plus the
\* requested amount exceeds 1,000,000, validate_withdrawal_eligibility
\* returns not eligible with the daily-limit reason quoting remaining =
\* 1,000,000 minus today's sum.
C20_DailyLimitRemainingQuoted ==
    \A u \in Users, r \in RequestedAmounts :
        today_withdrawals(u) + r > 1000000
        => validate_withdrawal_eligibility(u, r)
             = <<FALSE, DailyLimitExceeded(1000000 - today_withdrawals(u))>>

\* C21: in every reachable state of the two stores the balance endpoint
\* returns for the calling user the five figures that calculate_user_balance
\* derives from the relational ledger, also after withdrawals have been
\* requested or approved.
C21_EndpointReturnsLedgerFigures ==
    \A u \in Users, mongo_ok \in BOOLEAN :
        get_balance(u, mongo_ok) = calculate_user_balance(u)

\* the ways a mirror write fails
MirrorFailures == MirrorOutcomes \ {"ok"}

\* what a completion by verification commits to the relational store
\* whatever becomes of the mirror write: the completed row, and the
\* Transaction unless one was found
VerificationCommitted(id, loaded_txid, data) ==
    LET row == Completed(deposits[id], VerifiedTxId(data, loaded_txid), clock')
    IN  /\ deposits' = [deposits EXCEPT ![id] = row]
        /\ ledger' \in {ledger,
                         Append(ledger, Transaction(row.user_id, "deposit", row.amount,
                                                    "completed", row.tx_ref, clock'))}
        /\ \E k \in 1..Len(ledger') :
              /\ ledger'[k].type = "deposit"
              /\ ledger'[k].user_id = row.user_id
              /\ ledger'[k].amount = row.amount

\* C22: when the balance-cache mirror write fails during a deposit completion
\* (webhook, poll verification or batch apply) the failure is absorbed: the
\* Deposit is committed as completed, its Ledger Entry is in place, and the
\* operation reports the success result it reports when the mirror write
\* succeeds.
C22_MirrorFailureAbsorbed ==
    [][\/ clock' = clock
       \/ balances' # balances
       \/ /\ \A b \in GatewayEvents : \A h \in Signed(b), m \in MirrorFailures :
                handle_webhook(h[1], h[2], b, TRUE, m)
                => LET id == DepositByRef(WebhookRef(b))
                       row == Completed(deposits[id], Str(WebhookTxId(b)), clock')
                   IN  /\ deposits' = [deposits EXCEPT ![id] = row]
                       /\ ledger' = Append(ledger,
                              Transaction(row.user_id, "deposit", row.amount,
                                          "completed", row.tx_ref, clock'))
                       /\ webhook_response(h[1], h[2], b)
                            = Http(200, "Processed deposit webhook")
          /\ \A p \in verifying : \A a \in VerifyAnswers, m \in MirrorFailures :
                verify_deposit_status_return(p, a, m)
                => /\ VerificationCommitted(p.deposit_id, p.txid, a)
                   /\ verify_return_response(p, a) = Http(200, "completed")
          /\ \A a \in VerifyAnswers, m \in MirrorFailures :
                batch.jobs # << >> /\ batch_apply(a, m)
                => LET job == Head(batch.jobs)
                       loaded_txid == IF batch.expired
                                      THEN deposits[job.deposit_id].txid
                                      ELSE job.txid
                   IN  /\ VerificationCommitted(job.deposit_id, loaded_txid, a)
                       /\ apply_updates_result(job.deposit_id, loaded_txid, a)
                            = "True"]_vars

\* a Deposit is completed with its Ledger Entry while its user has no
\* balance-cache document: the mirror write of its completion failed
C22_Witness ==
    \E d \in DOMAIN deposits :
        /\ deposits[d].status = "completed"
        /\ EntriesOf(d) # {}
        /\ deposits[d].user_id \notin DOMAIN balances

\* C23: when the gateway verify call fails or times out during poll-driven
\* verification of a pending Deposit, the request is answered with an error,
\* the Deposit stays pending with its fields unchanged and no Ledger Entry or
\* balance-cache change is made; a later verification of the same Deposit can
\* still complete it: a pending Deposit with no poll in flight is verified
\* again on request, and a poll in flight on a pending Deposit completes it
\* when the gateway reports success with a transaction id of its own.
C23_FailedVerifyLeavesPending ==
    /\ [][\A p \in verifying :
            verify_deposit_status_return(p, VerifyError, "ok")
            => /\ UNCHANGED <<sql, mongo>>
               /\ verify_return_response(p, VerifyError).code = 500]_vars
    /\ [](\A d \in DOMAIN deposits :
            deposits[d].status = "pending"
            => /\ (\A p \in verifying : p.deposit_id # d)
                   => ENABLED (/\ verify_deposit_status(d, deposits[d].user_id)
                               /\ verifying' # verifying)
               /\ \A p \in verifying, i \in TxIds :
                     p.deposit_id = d /\ clock < MaxClock /\ ~TxIdTaken(d, Str(i))
                     => ENABLED (/\ verify_deposit_status_return(p,
                                       VerifyData("successful", "", NoRef, i, NoId), "ok")
                                 /\ deposits'[d].status = "completed"))

\* a poll of a pending Deposit awaits the gateway, and the failed verify call
\* leaves the Deposit as it is
C23_Witness ==
    \E p \in verifying :
        /\ p.deposit_id \in DOMAIN deposits
        /\ deposits[p.deposit_id].status = "pending"
        /\ ENABLED (/\ verify_deposit_status_return(p, VerifyError, "ok")
                    /\ UNCHANGED <<sql, mongo>>)

\* C24: a Withdrawal record is created, and the gateway transfer called for
\* it, only after validate_withdrawal_eligibility has returned eligible for
\* that user and amount against the ledger state at creation.
C24_CreatedOnlyIfEligible ==
    [][\A w \in (DOMAIN withdrawals' \ DOMAIN withdrawals)
                 \cup (requesting' \ requesting) :
          validate_withdrawal_eligibility(withdrawals'[w].user_id,
                                          withdrawals'[w].amount)[1]]_vars

\* C25: if the Ledger Entry write fails after a Deposit has been committed as
\* completed, retrying the completion eventually leaves that Deposit with
\* exactly one Ledger Entry: a completed Deposit (whose row is kept, while
\* the clock of the model has ticks left) does not stay without a Ledger
\* Entry forever under retries.
C25_RetryAddsMissingEntry ==
    \A d \in 1..MaxDeposits :
        (d \in DOMAIN deposits /\ deposits[d].status = "completed"
           /\ EntriesOf(d) = {})
        ~> (\/ d \notin DOMAIN deposits
            \/ Cardinality(EntriesOf(d)) = 1
            \/ clock = MaxClock)

\* C26: poll-driven verification of a Deposit asks the gateway by the stored
\* transaction id (by the reference when no id is stored) and, when that
\* lookup fails, falls back to the lookup by reference; the Deposit is
\* completed when either lookup reports success: a poll in flight on a
\* pending Deposit completes it whenever the first lookup reports success, or
\* fails while the lookup by reference reports success.
C26_EitherLookupCompletes ==
    \A p \in verifying :
        \A by_id \in VerifyAnswers, by_ref \in VerifyAnswers :
            /\ p.deposit_id \in DOMAIN deposits
            /\ deposits[p.deposit_id].status = "pending"
            /\ clock < MaxClock
            /\ \/ by_id.http = 200 /\ IsSuccessStatus(PollStatus(by_id))
               \/ by_id.http # 200 /\ IsSuccessStatus(PollStatus(by_ref))
            /\ ~CommitFails(p.deposit_id, p.txid, by_id)
            /\ ~CommitFails(p.deposit_id, p.txid, by_ref)
            => ENABLED (/\ verify_deposit_status_return(p,
                              verify_transaction(by_id, by_ref), "ok")
                        /\ deposits'[p.deposit_id].status = "completed")

\* the answers by which the gateway rejects a charge initiation: a
\* non-success response, or a response without a payment link
ChargeRejections == {"rejected", "no_link"}

\* C27: when the gateway rejects a charge initiation (non-success response,
\* or a response without a payment URL) the Deposit record created for that
\* attempt is removed, so no Deposit with that reference remains, no Ledger
\* Entry or balance-cache change results, and every other Deposit is left
\* unchanged.
C27_RejectedChargeDiscarded ==
    [][\/ initiating' = initiating
       \/ \A id \in initiating : \A o \in ChargeRejections :
             initiate_deposit_return(id, o)
             => /\ DOMAIN deposits' = DOMAIN deposits \ {id}
                /\ \A d \in DOMAIN deposits' :
                      /\ deposits'[d] = deposits[d]
                      /\ deposits'[d].tx_ref # deposits[id].tx_ref
                /\ UNCHANGED <<ledger, balances, mongo_transactions,
                               webhook_events, withdrawals>>]_vars

\* a charge initiation was rejected: a Deposit had been created, and no
\* Deposit, Ledger Entry or balance-cache document is left
C27_Witness ==
    /\ clock > 0
    /\ initiating = {}
    /\ DOMAIN deposits = {}
    /\ ledger = << >>
    /\ DOMAIN balances = {}

\* C28: for every user net_available computed from the ledger is never
\* negative in any reachable state: the sum of the user's pending,
\* processing and completed Withdrawals never exceeds the sum of the user's
\* completed Deposits.
C28_NetAvailableNeverNegative ==
    \A u \in Users : calculate_user_balance(u).net_available >= 0

\* C29: the amount credited when a Deposit is completed (the Ledger Entry
\* amount and the balance-cache increment) always equals the amount stored on
\* the Deposit at initiation, whatever amount or currency the webhook payload
\* or the verify response reports; the Deposit's stored amount, currency and
\* reference are never changed by a completion.
C29_CreditEqualsStoredAmount ==
    [][/\ \A d \in DOMAIN deposits \cap DOMAIN deposits' :
            /\ deposits'[d].amount = deposits[d].amount
            /\ deposits'[d].currency = deposits[d].currency
            /\ deposits'[d].tx_ref = deposits[d].tx_ref
       /\ ledger' # ledger
            => /\ Len(ledger') = Len(ledger) + 1
               /\ SubSeq(ledger', 1, Len(ledger)) = ledger
               /\ ledger'[Len(ledger')].type = "deposit"
                    => \E d \in DOMAIN deposits :
                          /\ deposits'[d].status = "completed"
                          /\ ledger'[Len(ledger')].description = deposits[d].tx_ref
                          /\ ledger'[Len(ledger')].user_id = deposits[d].user_id
                          /\ ledger'[Len(ledger')].amount = deposits[d].amount
                          /\ ledger'[Len(ledger')].currency = deposits[d].currency
       /\ balances' # balances
            => \E d \in DOMAIN deposits :
                  /\ deposits'[d].status = "completed"
                  /\ deposits'[d].completed_at = clock'
                  /\ balances' = IncBalance(balances, deposits[d].user_id,
                                            deposits[d].amount)]_vars

\* the gateway's event for a pending Deposit of 100 reports 5 in another
\* currency, and its delivery credits 100 to the ledger and to the cache
C29_Witness ==
    \E b \in ReportingEvents :
        /\ b.amount = 5
        /\ b.currency = "NGN"
        /\ DepositByRef(WebhookRef(b)) # 0
        /\ deposits[DepositByRef(WebhookRef(b))].status = "pending"
        /\ deposits[DepositByRef(WebhookRef(b))].amount = 100
        /\ \E h \in Signed(b) :
              ENABLED (/\ handle_webhook(h[1], h[2], b, TRUE, "ok")
                       /\ Len(ledger') = Len(ledger) + 1
                       /\ ledger'[Len(ledger')].amount = 100
                       /\ balances' = IncBalance(balances, 1, 100))

\* C30: a successful approval that moves a Withdrawal of amount a from
\* pending to processing lowers the owner's available_balance by a and
\* leaves the owner's net_available and total_deposits unchanged; a rejection
\* of a pending Withdrawal of amount a raises net_available by a and leaves
\* available_balance unchanged; the balances of other users are unchanged by
\* both.
C30_ApprovalAndRejectionFrame ==
    [][\/ withdrawals' = withdrawals
       \/ \A w \in DOMAIN withdrawals :
             LET owner == withdrawals[w].user_id
                 a == withdrawals[w].amount
                 before == calculate_user_balance(owner)
                 after == calculate_user_balance(owner)'
             IN  withdrawals[w].status = "pending"
                 => /\ (\E p \in approving, t \in TransferIds :
                          /\ p.withdrawal_id = w
                          /\ execute_withdrawal(p, "transfer_id", t)
                          /\ withdrawals'[w].status = "processing")
                       => /\ after.available_balance = before.available_balance - a
                          /\ after.net_available = before.net_available
                          /\ after.total_deposits = before.total_deposits
                          /\ \A u \in Users \ {owner} :
                                calculate_user_balance(u)' = calculate_user_balance(u)
                    /\ reject_withdrawal(w)
                       => /\ after.net_available = before.net_available + a
                          /\ after.available_balance = before.available_balance
                          /\ \A u \in Users \ {owner} :
                                calculate_user_balance(u)' = calculate_user_balance(u)]_vars

\* an approval of a pending Withdrawal of a user with completed Deposits
\* awaits the gateway, and the accepted transfer makes it processing
C30_Witness ==
    \E p \in approving :
        /\ withdrawals[p.withdrawal_id].status = "pending"
        /\ calculate_user_balance(withdrawals[p.withdrawal_id].user_id).total_deposits > 0
        /\ calculate_user_balance(withdrawals[p.withdrawal_id].user_id).pending_withdrawals
             = withdrawals[p.withdrawal_id].amount
        /\ ENABLED (/\ execute_withdrawal(p, "transfer_id", 701)
                    /\ withdrawals'[p.withdrawal_id].status = "processing")
        /\ ENABLED (/\ reject_withdrawal(p.withdrawal_id)
                    /\ withdrawals'[p.withdrawal_id].status = "rejected")

====
